---- MODULE Spec2Model ----
(***************************************************************************)
(* ChatViewer (src/src/ChatViewer.js): a React component that lists the    *)
(* conversations of the table zest_chat, shows the thread of the selected  *)
(* conversation, polls both on timers and renames a conversation inline.   *)
(*                                                                         *)
(* Every async handler is split at its await: the part before the await    *)
(* issues the query (the store answers it from the rows it holds at that   *)
(* moment and the answer travels back), the part after the await is a      *)
(* separate step that consumes one answer in flight, in any order.         *)
(* A state update followed by the effects of the render it causes          *)
(* (useEffect cleanup, then the new effect) is one step.                   *)
(*                                                                         *)
(* Text the code slices or trims (session ids, display names, drafts) is a *)
(* sequence of one-character strings; message types and contents, which    *)
(* the code only copies and compares, are plain strings.                   *)
(***************************************************************************)
EXTENDS Integers, Sequences, FiniteSets, Bags, TLC

\* ---------------------------------------------------------------- bounds
\* Rows the table can hold.
MaxRows == 3
\* Rows of the tables the thread is first loaded from.
MaxInitRows == 2
\* created_at ranges over 0..MaxTime, in steps of half a millisecond.
MaxTime == 2
\* Answers in flight: to list fetches, to thread fetches, to rename updates.
MaxListInFlight == 1
MaxThreadInFlight == 2
MaxRenameInFlight == 1
\* Rename updates the user sends in one run.
MaxSubmits == 1

\* ---------------------------------------------------------------- text
\* SQL NULL / JS null where a text is expected: a sequence no text equals
\* (the elements of a text are single characters).
Null == <<"null">>

EmptyString == <<>>

\* The two sessions of the model: one id longer than 8 characters, one shorter.
SessionA == <<"a", "b", "c", "1", "2", "3", "4", "5", "6", "7">>
SessionB == <<"z", "9">>
Sessions == {SessionA, SessionB}

IsWhiteSpace(c) == c = " "

\* String.prototype.trim
RECURSIVE TrimStart(_)
TrimStart(s) ==
  IF s # <<>> /\ IsWhiteSpace(Head(s)) THEN TrimStart(Tail(s)) ELSE s

RECURSIVE TrimEnd(_)
TrimEnd(s) ==
  IF s # <<>> /\ IsWhiteSpace(s[Len(s)]) THEN TrimEnd(SubSeq(s, 1, Len(s) - 1)) ELSE s

Trim(s) == TrimEnd(TrimStart(s))

\* String.prototype.substring(from, to), 0-based, to exclusive, clamped.
Substring(s, from, to) ==
  SubSeq(s, from + 1, IF to < Len(s) THEN to ELSE Len(s))

\* Faulty variant: one character short, substring(0, 7).
SynthesizedNameShort(sessionId) ==
  <<"C", "o", "n", "v", "e", "r", "s", "a", "t", "i", "o", "n", " ">>
    \o Substring(sessionId, 0, 7) \o <<".", ".", ".">>

\* `Conversation ${sessionId.substring(0, 8)}...`
SynthesizedName(sessionId) ==
  <<"C", "o", "n", "v", "e", "r", "s", "a", "t", "i", "o", "n", " ">>
    \o Substring(sessionId, 0, 8) \o <<".", ".", ".">>

\* JS truthiness of a nullable text: null and '' are falsy.
Truthy(text) == text # Null /\ text # EmptyString

\* ------------------------------------------------------------ timestamps
Times == 0..MaxTime

\* new Date(created_at): the store keeps sub-millisecond digits, a Date keeps
\* milliseconds; two ticks of the model make one millisecond.
NewDate(createdAt) == createdAt \div 2

\* ------------------------------------------------------- message payloads
\* row.message is a string (JSON text) or an already structured value.
Undefined == "undefined"

JsObject(type, content) == [nullish |-> FALSE, type |-> type, content |-> content]
JsNull == [nullish |-> TRUE, type |-> Undefined, content |-> Undefined]

StringPayload(text) == [isString |-> TRUE, text |-> text, value |-> JsNull]
ObjectPayload(value) == [isString |-> FALSE, text |-> "", value |-> value]

HumanText == "{\"type\":\"human\",\"content\":\"hi\"}"
BrokenText == "{\"type\":"
NullText == "null"

\* JSON.parse on the texts of the model: the value, or a SyntaxError.
JSONParse(text) ==
  CASE text = HumanText -> [threw |-> FALSE, value |-> JsObject("human", "hi")]
    [] text = NullText -> [threw |-> FALSE, value |-> JsNull]
    [] OTHER -> [threw |-> TRUE, value |-> JsNull]

\* The payloads the chatbot writes in the running system.
ChatPayloads == {StringPayload(HumanText), ObjectPayload(JsObject("ai", "yo"))}

\* Every payload shape of the model: JSON text of a message, broken JSON text,
\* JSON text of null, a structured message, a structured value with no type.
Payloads ==
  ChatPayloads \cup
    { StringPayload(BrokenText), StringPayload(NullText),
      ObjectPayload(JsObject(Undefined, "raw")) }

\* ------------------------------------------------------------- the store
\* A ChatRow of zest_chat.
Row(id, sessionId, createdAt, displayName, message) ==
  [id |-> id, session_id |-> sessionId, created_at |-> createdAt,
   display_name |-> displayName, message |-> message]

NameA == <<"a">>

\* Tables of exactly n rows drawn from the given columns: ids 1..n in the
\* order of insertion, created_at the time of insertion (so every multiset of
\* sessions, times, names and payloads is some table).
TablesOf(n, times, names, payloads) ==
  { { Row(i, f[i][1], f[i][2], f[i][3], f[i][4]) : i \in 1..n } :
      f \in { g \in [1..n -> Sessions \X times \X names \X payloads] :
                \A i \in 1..n : i < n => g[i][2] <= g[i + 1][2] } }

TablesUpTo(n, times, names, payloads) ==
  UNION { TablesOf(k, times, names, payloads) : k \in 0..n }

\* The rows that may come first under .order('created_at', {ascending}).
FirstRows(rows, ascending) ==
  { r \in rows :
      \A x \in rows : IF ascending THEN r.created_at <= x.created_at
                                   ELSE r.created_at >= x.created_at }

\* The orders in which the store may return a set of rows for
\* .order('created_at', {ascending}): sorted on created_at, ties in any order.
RECURSIVE OrderedBy(_, _)
OrderedBy(rows, ascending) ==
  IF rows = {} THEN {<<>>}
  ELSE UNION { { <<r>> \o s : s \in OrderedBy(rows \ {r}, ascending) } :
                 r \in FirstRows(rows, ascending) }

\* .select('session_id, created_at, display_name')
ListColumns(row) ==
  [session_id |-> row.session_id, created_at |-> row.created_at,
   display_name |-> row.display_name]

MapSeq(F(_), s) == [i \in 1..Len(s) |-> F(s[i])]

\* Faulty variant: the list query asks for the oldest row first.
ListQueryOldestFirst == TRUE

\* { ascending: false } of the query of loadConversations.
ListQueryAscending == FALSE

\* The answers the store may give to the query of loadConversations.
SelectList(rows) ==
  { MapSeq(ListColumns, s) : s \in OrderedBy(rows, ListQueryAscending) }

\* { ascending: true } of the query of loadMessages.
ThreadQueryAscending == TRUE

\* The answers the store may give to the query of loadMessages(sessionId).
SelectThread(rows, sessionId) ==
  OrderedBy({ r \in rows : r.session_id = sessionId }, ThreadQueryAscending)

\* Faulty variant: the update without its .eq('session_id', sessionId) filter.
UpdateDisplayNameEverywhere(rows, sessionId, newName) ==
  { [r EXCEPT !.display_name = newName] : r \in rows }

\* .update({display_name: newName}).eq('session_id', sessionId)
UpdateDisplayName(rows, sessionId, newName) ==
  { IF r.session_id = sessionId THEN [r EXCEPT !.display_name = newName] ELSE r :
      r \in rows }

\* ------------------------------------------------------ loadConversations
\* A Conversation of the index.
Conversation(sessionId, createdAt, displayName) ==
  [session_id |-> sessionId, created_at |-> createdAt, display_name |-> displayName]

\* selectedConversation = null
NoConversation == Conversation(Null, 0, Null)

\* sessionsMap, a JS Map: its entries in insertion order.
MapHas(map, sessionId) == \E i \in 1..Len(map) : map[i].session_id = sessionId

MapGet(map, sessionId) ==
  map[CHOOSE i \in 1..Len(map) : map[i].session_id = sessionId]

\* Map.prototype.set: a key already present keeps its place.
MapSet(map, sessionId, value) ==
  IF MapHas(map, sessionId)
    THEN [i \in 1..Len(map) |->
            IF map[i].session_id = sessionId THEN value ELSE map[i]]
    ELSE Append(map, value)

\* Faulty variant: the comparison turned around.
IsOlder(rowCreatedAt, keptCreatedAt) ==
  NewDate(rowCreatedAt) < NewDate(keptCreatedAt)

\* new Date(row.created_at) > new Date(sessionsMap.get(sessionId).created_at)
IsMoreRecent(rowCreatedAt, keptCreatedAt) ==
  NewDate(rowCreatedAt) > NewDate(keptCreatedAt)

\* Faulty variant: the stored display_name is not read, the label is always
\* synthesized.
DisplayNameSynthesizedOnly(row) == SynthesizedName(row.session_id)

\* row.display_name || `Conversation ${sessionId.substring(0, 8)}...`
DisplayNameOf(row) ==
  IF Truthy(row.display_name) THEN row.display_name
                              ELSE SynthesizedName(row.session_id)

\* The body of data.forEach(row => ...).
IndexRow(map, row) ==
  IF \/ ~MapHas(map, row.session_id)
     \/ IsMoreRecent(row.created_at, MapGet(map, row.session_id).created_at)
    THEN MapSet(map, row.session_id,
                Conversation(row.session_id, row.created_at, DisplayNameOf(row)))
    ELSE map

RECURSIVE IndexRows(_, _)
IndexRows(map, data) ==
  IF data = <<>> THEN map ELSE IndexRows(IndexRow(map, Head(data)), Tail(data))

\* Array.from(sessionsMap.values()) after the forEach.
BuildIndex(data) == IndexRows(<<>>, data)

\* ----------------------------------------------------------- loadMessages
PlaceholderMessage == JsObject("unknown", "Message non parsable")

\* typeof row.message === 'string' ? JSON.parse(row.message) : row.message,
\* with the catch around it.
ParsePayload(message) ==
  IF message.isString
    THEN IF JSONParse(message.text).threw THEN PlaceholderMessage
                                          ELSE JSONParse(message.text).value
    ELSE message.value

\* parsedMessage.type on null is a TypeError, thrown out of the map callback.
ParseThrows(row) == ParsePayload(row.message).nullish

\* The Message the map callback returns for a row.
ParseRow(row) ==
  [id |-> row.id, type |-> ParsePayload(row.message).type,
   content |-> ParsePayload(row.message).content, timestamp |-> row.created_at]

ParseRows(data) == MapSeq(ParseRow, data)

AnyParseThrows(data) == \E i \in 1..Len(data) : ParseThrows(data[i])

\* JSON.stringify of one message: its properties in order, undefined ones left out.
StringifyMessage(m) ==
  <<<<"id", m.id>>>>
    \o (IF m.type = Undefined THEN <<>> ELSE <<<<"type", m.type>>>>)
    \o (IF m.content = Undefined THEN <<>> ELSE <<<<"content", m.content>>>>)
    \o <<<<"timestamp", m.timestamp>>>>

\* JSON.stringify(messages)
JSONStringify(msgs) == MapSeq(StringifyMessage, msgs)

\* Faulty variant: no comparison, every answer counts as a change.
AlwaysChanged(parsedMessages, prevMessages) == TRUE

\* newMessagesString !== prevMessagesString
MessagesChanged(parsedMessages, prevMessages) ==
  JSONStringify(parsedMessages) # JSONStringify(prevMessages)

\* ----------------------------------------------------------------- state
VARIABLES
  store,                 \* the rows of zest_chat
  conversations,         \* useState([]): the index, a sequence of Conversations
  selectedConversation,  \* useState(null)
  messages,              \* useState([]): the displayed thread
  loading,               \* useState(true)
  editingSession,        \* useState(null)
  newSessionName,        \* useState(''): the draft
  threadTimers,          \* the live setInterval handles of the thread effect,
                         \* each with the session_id its callback closed over
  listFetches,           \* answers to loadConversations queries, in flight
  threadFetches,         \* answers to loadMessages queries, in flight
  renameUpdates,         \* answers to rename updates, in flight, each with the
                         \* state handleRenameSubmit closed over
  submits,               \* updates sent to the store so far
  last                   \* what the last step did (history)

vars ==
  <<store, conversations, selectedConversation, messages, loading, editingSession,
    newSessionName, threadTimers, listFetches, threadFetches, renameUpdates,
    submits, last>>

\* The record of a step: the handler, the session it concerned, whether the
\* store answered its query without error, what the answer carried, whether
\* the step replaced the displayed thread (which re-runs the scroll effect),
\* how many times it called alert(), whether it sent an update to the store,
\* and the session selected before it.
Step(op, sid, ok, data, replaced, alerts, updated) ==
  [op |-> op, sid |-> sid, ok |-> ok, data |-> data, replaced |-> replaced,
   alerts |-> alerts, updated |-> updated,
   selectedBefore |-> selectedConversation.session_id]

Quiet(op, sid) == Step(op, sid, TRUE, <<>>, FALSE, 0, FALSE)

Range(s) == { s[i] : i \in 1..Len(s) }

\* --------------------------------------------------------------- effects
\* clearInterval(interval), the cleanup of the thread effect: the effect owns
\* the one interval it created, the last of threadTimers.
ClearInterval(timers) ==
  IF timers = <<>> THEN timers ELSE SubSeq(timers, 1, Len(timers) - 1)

\* Faulty variant: the effect returns no cleanup.
ThreadEffectNoCleanup(timers, before, after) ==
  IF after # NoConversation THEN Append(timers, after.session_id) ELSE timers

\* useEffect(..., [selectedConversation]) after a render that changed the
\* selection from `before` to `after`: the cleanup of the previous run (which
\* exists only if `before` was a conversation), then the new run.
ThreadEffect(timers, before, after) ==
  LET cleaned == IF before # NoConversation THEN ClearInterval(timers) ELSE timers
  IN  IF after # NoConversation THEN Append(cleaned, after.session_id) ELSE cleaned

InFlight(bag) == BagCardinality(bag)

\* ------------------------------------------------------------- the index
\* setInterval(() => loadConversations(), 3000): the part of loadConversations
\* up to its await.
ListTick ==
  /\ InFlight(listFetches) < MaxListInFlight
  /\ \E data \in SelectList(store) :
       listFetches' = listFetches (+) SetToBag({[data |-> data]})
  /\ last' = Quiet("listTick", Null)
  /\ UNCHANGED <<store, conversations, selectedConversation, messages, loading,
                 editingSession, newSessionName, threadTimers, threadFetches,
                 renameUpdates, submits>>

\* Faulty variant: the catch block empties the list.
LoadConversationsResumeResetting ==
  \E f \in BagToSet(listFetches), failed \in BOOLEAN :
    /\ listFetches' = listFetches (-) SetToBag({f})
    /\ conversations' = IF failed THEN <<>> ELSE BuildIndex(f.data)
    /\ loading' = FALSE
    /\ last' = Step("loadConversations", Null, ~failed, f.data, FALSE, 0, FALSE)
    /\ UNCHANGED <<store, selectedConversation, messages, editingSession,
                   newSessionName, threadTimers, threadFetches, renameUpdates, submits>>

\* loadConversations after its await: the answer is an error (or the request
\* threw), or it carries rows.
LoadConversationsResume ==
  \E f \in BagToSet(listFetches), failed \in BOOLEAN :
    /\ listFetches' = listFetches (-) SetToBag({f})
    /\ conversations' = IF failed THEN conversations ELSE BuildIndex(f.data)
    /\ loading' = FALSE
    /\ last' = Step("loadConversations", Null, ~failed, f.data, FALSE, 0, FALSE)
    /\ UNCHANGED <<store, selectedConversation, messages, editingSession,
                   newSessionName, threadTimers, threadFetches, renameUpdates, submits>>

\* ------------------------------------------------------------ the thread
\* loadMessages(sessionId) up to its await.
IssueLoadMessages(sessionId) ==
  /\ InFlight(threadFetches) < MaxThreadInFlight
  /\ \E data \in SelectThread(store, sessionId) :
       threadFetches' =
         threadFetches (+) SetToBag({[sessionId |-> sessionId, data |-> data]})

\* setInterval(() => loadMessages(selectedConversation.session_id), 2000)
ThreadTick ==
  /\ \E i \in 1..Len(threadTimers) : IssueLoadMessages(threadTimers[i])
  /\ last' = Quiet("threadTick", Null)
  /\ UNCHANGED <<store, conversations, selectedConversation, messages, loading,
                 editingSession, newSessionName, threadTimers, listFetches,
                 renameUpdates, submits>>

\* The updater passed to setMessages.
NextMessages(parsedMessages, prevMessages) ==
  IF MessagesChanged(parsedMessages, prevMessages) THEN parsedMessages
                                                   ELSE prevMessages

\* Whether setMessages hands React a new array, which re-renders and re-runs
\* useEffect(() => scrollToBottom(), [messages]).
ReplacesMessages(parsedMessages, prevMessages) ==
  MessagesChanged(parsedMessages, prevMessages)

\* loadMessages after its await.
LoadMessagesResume ==
  \E f \in BagToSet(threadFetches), failed \in BOOLEAN :
    LET thrown == failed \/ AnyParseThrows(f.data)
        parsedMessages == ParseRows(f.data)
    IN  /\ threadFetches' = threadFetches (-) SetToBag({f})
        /\ messages' = IF thrown THEN messages
                                 ELSE NextMessages(parsedMessages, messages)
        /\ last' = Step("loadMessages", f.sessionId, ~failed, f.data,
                        ~thrown /\ ReplacesMessages(parsedMessages, messages),
                        0, FALSE)
        /\ UNCHANGED <<store, conversations, selectedConversation, loading,
                       editingSession, newSessionName, threadTimers, listFetches,
                       renameUpdates, submits>>

\* onClick of a conversation item (the list is rendered once loading is false).
HandleConversationClick ==
  \E conversation \in Range(conversations) :
    /\ ~loading
    /\ selectedConversation' = conversation
    /\ IssueLoadMessages(conversation.session_id)
    /\ threadTimers' = ThreadEffect(threadTimers, selectedConversation, conversation)
    /\ last' = Quiet("handleConversationClick", conversation.session_id)
    /\ UNCHANGED <<store, conversations, messages, loading, editingSession,
                   newSessionName, listFetches, renameUpdates, submits>>

\* ------------------------------------------------------------ the rename
\* What the user may type into the edit input (onChange).
DraftTexts == {EmptyString, <<" ">>, <<" ", "a", " ">>}

\* onClick of the rename button of a conversation item.
HandleRenameStart ==
  \E conversation \in Range(conversations) :
    /\ ~loading
    /\ editingSession' = conversation.session_id
    /\ newSessionName' = conversation.display_name
    /\ last' = Quiet("handleRenameStart", conversation.session_id)
    /\ UNCHANGED <<store, conversations, selectedConversation, messages, loading,
                   threadTimers, listFetches, threadFetches, renameUpdates, submits>>

\* The edit input is rendered in the item of the session being edited.
EditInputShown ==
  /\ ~loading
  /\ \E conversation \in Range(conversations) :
       conversation.session_id = editingSession

\* onChange of the edit input.
OnChangeDraft ==
  /\ EditInputShown
  /\ \E text \in DraftTexts \ {newSessionName} : newSessionName' = text
  /\ last' = Quiet("onChange", editingSession)
  /\ UNCHANGED <<store, conversations, selectedConversation, messages, loading,
                 editingSession, threadTimers, listFetches, threadFetches,
                 renameUpdates, submits>>

\* Faulty variant: the draft compared without trim().
IsEmptyUntrimmed(draft) == draft = EmptyString

\* newSessionName.trim() === ''
IsBlank(draft) == Trim(draft) = EmptyString

\* How the store may answer the update: done, an error result, or the request throws.
UpdateOutcomes == {"ok", "error", "throw"}

\* Faulty variant: the error of the answer is not looked at, only a throw fails.
UpdateSucceededUnlessThrown(outcome) == outcome # "throw"

\* The value updateDisplayNameInDatabase returns.
UpdateSucceeded(outcome) == outcome = "ok"

\* Faulty variant: the new name is written into the index when the update is
\* sent, before its result is known.
HandleRenameSubmitOptimistic ==
  /\ EditInputShown
  /\ IF IsBlank(newSessionName)
       THEN /\ editingSession' = Null
            /\ last' = Quiet("handleRenameSubmit", editingSession)
            /\ UNCHANGED <<store, conversations, renameUpdates, submits>>
       ELSE /\ InFlight(renameUpdates) < MaxRenameInFlight
            /\ submits < MaxSubmits
            /\ \E outcome \in UpdateOutcomes :
                 /\ store' = IF outcome = "ok"
                               THEN UpdateDisplayName(store, editingSession,
                                                      Trim(newSessionName))
                               ELSE store
                 /\ renameUpdates' = renameUpdates (+) SetToBag({
                      [editingSession |-> editingSession,
                       newSessionName |-> newSessionName,
                       selectedSession |-> selectedConversation.session_id,
                       outcome |-> outcome]})
                 /\ submits' = submits + 1
                 /\ last' = Step("handleRenameSubmit", editingSession,
                                 outcome = "ok",
                                 <<[editingSession |-> editingSession,
                                    newSessionName |-> newSessionName,
                                    selectedSession |-> selectedConversation.session_id,
                                    outcome |-> outcome]>>,
                                 FALSE, 0, TRUE)
            /\ conversations' =
                 [i \in 1..Len(conversations) |->
                    IF conversations[i].session_id = editingSession
                      THEN [conversations[i] EXCEPT
                              !.display_name = Trim(newSessionName)]
                      ELSE conversations[i]]
            /\ UNCHANGED editingSession
  /\ UNCHANGED <<selectedConversation, messages, loading,
                 newSessionName, threadTimers, listFetches, threadFetches>>

\* handleRenameSubmit up to its await (Enter in the edit input), or all of it
\* for a blank draft.
HandleRenameSubmit ==
  /\ EditInputShown
  /\ IF IsBlank(newSessionName)
       THEN /\ editingSession' = Null
            /\ last' = Quiet("handleRenameSubmit", editingSession)
            /\ UNCHANGED <<store, renameUpdates, submits>>
       ELSE /\ InFlight(renameUpdates) < MaxRenameInFlight
            /\ submits < MaxSubmits
            /\ \E outcome \in UpdateOutcomes :
                 /\ store' = IF outcome = "ok"
                               THEN UpdateDisplayName(store, editingSession,
                                                      Trim(newSessionName))
                               ELSE store
                 /\ renameUpdates' = renameUpdates (+) SetToBag({
                      [editingSession |-> editingSession,
                       newSessionName |-> newSessionName,
                       selectedSession |-> selectedConversation.session_id,
                       outcome |-> outcome]})
                 /\ submits' = submits + 1
                 /\ last' = Step("handleRenameSubmit", editingSession,
                                 outcome = "ok",
                                 <<[editingSession |-> editingSession,
                                    newSessionName |-> newSessionName,
                                    selectedSession |-> selectedConversation.session_id,
                                    outcome |-> outcome]>>,
                                 FALSE, 0, TRUE)
            /\ UNCHANGED editingSession
  /\ UNCHANGED <<conversations, selectedConversation, messages, loading,
                 newSessionName, threadTimers, listFetches, threadFetches>>

\* setConversations(prev => prev.map(...)) with the closure's editingSession
\* and newSessionName.
RenameInIndex(prev, session, draft) ==
  [i \in 1..Len(prev) |->
     IF prev[i].session_id = session
       THEN [prev[i] EXCEPT !.display_name = Trim(draft)]
       ELSE prev[i]]

\* The test guarding setSelectedConversation, on the closure's values (of the
\* selectedConversation it closed over, the code reads session_id alone).
RenamesSelected(closure) ==
  /\ closure.selectedSession # Null
  /\ closure.selectedSession = closure.editingSession

\* setSelectedConversation(prev => ({...prev, display_name: ...}))
RenameSelected(prev, draft) == [prev EXCEPT !.display_name = Trim(draft)]

\* handleRenameSubmit after its await, with the values it closed over.
HandleRenameSubmitResume ==
  \E u \in BagToSet(renameUpdates) :
    /\ renameUpdates' = renameUpdates (-) SetToBag({u})
    /\ IF UpdateSucceeded(u.outcome)
         THEN /\ conversations' =
                   RenameInIndex(conversations, u.editingSession, u.newSessionName)
              /\ selectedConversation' =
                   IF RenamesSelected(u)
                     THEN RenameSelected(selectedConversation, u.newSessionName)
                     ELSE selectedConversation
              /\ threadTimers' =
                   IF RenamesSelected(u)
                     THEN ThreadEffect(threadTimers, selectedConversation,
                                       selectedConversation')
                     ELSE threadTimers
         ELSE UNCHANGED <<conversations, selectedConversation, threadTimers>>
    /\ editingSession' = Null
    /\ newSessionName' = EmptyString
    /\ last' = Step("handleRenameSubmitResume", u.editingSession,
                    u.outcome = "ok", <<u>>, FALSE,
                    IF UpdateSucceeded(u.outcome) THEN 0 ELSE 1, FALSE)
    /\ UNCHANGED <<store, messages, loading, listFetches, threadFetches, submits>>

\* onBlur of the edit input; also what the Escape branch of onKeyPress calls.
HandleRenameCancel ==
  /\ EditInputShown
  /\ editingSession' = Null
  /\ newSessionName' = EmptyString
  /\ last' = Quiet("handleRenameCancel", editingSession)
  /\ UNCHANGED <<store, conversations, selectedConversation, messages, loading,
                 threadTimers, listFetches, threadFetches, renameUpdates, submits>>

\* Whether pressing `key` in the edit input calls the function given as
\* onKeyPress. React calls it for a keypress event that carries a character
\* code, or Enter; Escape produces no character, so no keypress is dispatched
\* for it (keydown and keyup are, and the input has no handler for them).
KeyPressDispatched(key) == key # "Escape"

\* The user presses Escape in the edit input: the onKeyPress handler, and in
\* it the branch `else if (e.key === 'Escape') handleRenameCancel()`, runs
\* only if a keypress is dispatched for the key.
PressEscape ==
  /\ EditInputShown
  /\ IF KeyPressDispatched("Escape")
       THEN /\ editingSession' = Null
            /\ newSessionName' = EmptyString
       ELSE UNCHANGED <<editingSession, newSessionName>>
  /\ last' = Quiet("pressEscape", editingSession)
  /\ UNCHANGED <<store, conversations, selectedConversation, messages, loading,
                 threadTimers, listFetches, threadFetches, renameUpdates, submits>>

\* ------------------------------------------------------------ environment
LatestTime(rows) ==
  IF rows = {} THEN 0
  ELSE CHOOSE t \in Times : /\ \E r \in rows : r.created_at = t
                            /\ \A r \in rows : r.created_at <= t

\* The chatbot appends a message row to zest_chat: the next id, the current
\* time, no display name.
StoreInsert ==
  /\ Cardinality(store) < MaxRows
  /\ \E sessionId \in Sessions, createdAt \in Times, message \in ChatPayloads :
       /\ createdAt >= LatestTime(store)
       /\ store' = store \cup
            {Row(Cardinality(store) + 1, sessionId, createdAt, Null, message)}
  /\ last' = Quiet("storeInsert", Null)
  /\ UNCHANGED <<conversations, selectedConversation, messages, loading,
                 editingSession, newSessionName, threadTimers, listFetches,
                 threadFetches, renameUpdates, submits>>

\* ---------------------------------------------------------- specifications
\* The component once mounted over the table `rows`: the mount effect has
\* called loadConversations() and started the list timer.
Mounted(rows) ==
  /\ store = rows
  /\ conversations = <<>>
  /\ selectedConversation = NoConversation
  /\ messages = <<>>
  /\ loading = TRUE
  /\ editingSession = Null
  /\ newSessionName = EmptyString
  /\ threadTimers = <<>>
  /\ \E data \in SelectList(rows) : listFetches = SetToBag({[data |-> data]})
  /\ threadFetches = EmptyBag
  /\ renameUpdates = EmptyBag
  /\ submits = 0
  /\ last = Quiet("mount", Null)

\* The table the whole component is run over: two rows of one session, one
\* row of the other, no display name stored yet.
InitialTable ==
  { Row(1, SessionA, 0, Null, StringPayload(HumanText)),
    Row(2, SessionB, 1, Null, ObjectPayload(JsObject("ai", "yo"))),
    Row(3, SessionA, 2, Null, ObjectPayload(JsObject("ai", "yo"))) }

\* The whole component over InitialTable, the rename its only writer.
Init == Mounted(InitialTable)

Next ==
  \/ ListTick
  \/ LoadConversationsResume
  \/ ThreadTick
  \/ LoadMessagesResume
  \/ HandleConversationClick
  \/ HandleRenameStart
  \/ OnChangeDraft
  \/ HandleRenameSubmit
  \/ HandleRenameSubmitResume
  \/ HandleRenameCancel
  \/ PressEscape

Spec == Init /\ [][Next]_vars

\* A list fetch, resp. a thread fetch, that the store answers with rows.
LoadConversationsOk == LoadConversationsResume /\ last'.ok

LoadMessagesOk == LoadMessagesResume /\ last'.ok

\* The index and the rename without the thread pane (neither reads the
\* selection when it writes the index), under the scheduling of the running
\* page: the list interval keeps firing, the answer of the rename update
\* arrives, and of the list fetches that keep being issued some keep being
\* answered with rows.
NextRename ==
  \/ ListTick
  \/ LoadConversationsResume
  \/ HandleRenameStart
  \/ OnChangeDraft
  \/ HandleRenameSubmit
  \/ HandleRenameSubmitResume
  \/ HandleRenameCancel
  \/ PressEscape

FairnessRename ==
  /\ WF_vars(ListTick)
  /\ WF_vars(HandleRenameSubmitResume)
  /\ SF_vars(LoadConversationsOk)

SpecRenameFair == Init /\ [][NextRename]_vars /\ FairnessRename

\* The index over every table of the bounds and every order of the answer:
\* the first loadConversations of the mounted component.
InitIndex ==
  \E rows \in TablesUpTo(MaxRows, Times, {Null, NameA}, {StringPayload(HumanText)}) :
    Mounted(rows)

NextIndex ==
  \/ LoadConversationsResume

SpecIndex == InitIndex /\ [][NextIndex]_vars

\* The thread over every table of the bounds, every payload shape: the
\* component after its first list fetch has been answered and applied, with
\* the chatbot still writing.
InitThread ==
  \E rows \in TablesUpTo(MaxInitRows, {0, MaxTime}, {Null}, Payloads) :
    /\ store = rows
    /\ \E data \in SelectList(rows) : conversations = BuildIndex(data)
    /\ selectedConversation = NoConversation
    /\ messages = <<>>
    /\ loading = FALSE
    /\ editingSession = Null
    /\ newSessionName = EmptyString
    /\ threadTimers = <<>>
    /\ listFetches = EmptyBag
    /\ threadFetches = EmptyBag
    /\ renameUpdates = EmptyBag
    /\ submits = 0
    /\ last = Quiet("loadConversations", Null)

NextThread ==
  \/ HandleConversationClick
  \/ ThreadTick
  \/ LoadMessagesResume
  \/ StoreInsert

SpecThread == InitThread /\ [][NextThread]_vars

\* The thread pane over every table of the bounds, the rows no longer
\* changing, under the scheduling of the running page: the thread interval
\* keeps firing, and of the thread fetches that keep being issued some keep
\* being answered with rows.
NextSelect ==
  \/ HandleConversationClick
  \/ ThreadTick
  \/ LoadMessagesResume

FairnessThread ==
  /\ WF_vars(ThreadTick)
  /\ SF_vars(LoadMessagesOk)

SpecThreadFair == InitThread /\ [][NextSelect]_vars /\ FairnessThread

\* ------------------------------------------------------------ properties
SessionsIn(data) == { data[i].session_id : i \in 1..Len(data) }

RowsOf(data, sessionId) == { data[i] : i \in { j \in 1..Len(data) : data[j].session_id = sessionId } }

EntriesOf(index, sessionId) == { i \in 1..Len(index) : index[i].session_id = sessionId }

ListApplied == last.op = "loadConversations" /\ last.ok

ThreadAnswered == last.op = "loadMessages" /\ last.ok

\* C1: an answer to loadMessages(S) replaces the displayed thread only if S is
\* the session selected when the answer arrives.
C1_AnswerAppliedOnlyForSelected ==
  (last.op = "loadMessages" /\ last.replaced)
    => last.sid = selectedConversation.session_id

\* C2: at most one thread-refresh timer is live, and it polls the session of
\* the selected conversation; with no selection there is none.
C2_OneTimerOfSelected ==
  /\ Len(threadTimers) <= 1
  /\ selectedConversation = NoConversation => threadTimers = <<>>
  /\ selectedConversation # NoConversation
       => threadTimers = <<selectedConversation.session_id>>

\* The selection has just moved from one session to another.
C2_Witness ==
  /\ last.op = "handleConversationClick"
  /\ last.selectedBefore # Null
  /\ last.selectedBefore # last.sid
  /\ threadTimers = <<last.sid>>

\* C3: after loadConversations has applied an answer, the index holds exactly
\* one Conversation per session_id of the rows answered, none for any other
\* session, and each one's created_at is the greatest created_at of the rows
\* of its session.
C3_OnePerSessionWithLatestTime ==
  ListApplied =>
    /\ \A sessionId \in SessionsIn(last.data) :
         Cardinality(EntriesOf(conversations, sessionId)) = 1
    /\ \A i \in 1..Len(conversations) :
         /\ conversations[i].session_id \in SessionsIn(last.data)
         /\ \E r \in RowsOf(last.data, conversations[i].session_id) :
              conversations[i].created_at = r.created_at
         /\ \A r \in RowsOf(last.data, conversations[i].session_id) :
              conversations[i].created_at >= r.created_at

\* An answer with two sessions, one of them with rows of different times.
C3_Witness ==
  /\ ListApplied
  /\ SessionsIn(last.data) = Sessions
  /\ \E r1, r2 \in RowsOf(last.data, SessionA) : r1.created_at < r2.created_at

StoredNames(data, sessionId) ==
  { r.display_name : r \in { x \in RowsOf(data, sessionId) : Truthy(x.display_name) } }

\* C4: after loadConversations has applied an answer, a Conversation carries a
\* stored display name whenever any row of its session has a non-empty one,
\* and the synthesized label only when none has.
C4_StoredNameOfAnyRow ==
  ListApplied =>
    \A i \in 1..Len(conversations) :
      IF StoredNames(last.data, conversations[i].session_id) # {}
        THEN conversations[i].display_name
               \in StoredNames(last.data, conversations[i].session_id)
        ELSE conversations[i].display_name
               = SynthesizedName(conversations[i].session_id)

RenameAnswered == last.op = "handleRenameSubmitResume"

\* C5: when the store has confirmed the rename of session S to the trimmed
\* draft N, the index entry of S gets display name N, every other entry is
\* unchanged, and if S is the session selected at that moment the selected
\* conversation's display name becomes N.
C5_ConfirmedRenameShown ==
  [][ (RenameAnswered' /\ last'.ok) =>
        /\ Len(conversations') = Len(conversations)
        /\ \A i \in 1..Len(conversations) :
             conversations'[i] =
               IF conversations[i].session_id = last'.sid
                 THEN [conversations[i] EXCEPT
                         !.display_name = Trim(last'.data[1].newSessionName)]
                 ELSE conversations[i]
        /\ selectedConversation.session_id = last'.sid
             => selectedConversation'.display_name
                  = Trim(last'.data[1].newSessionName) ]_vars

\* C6: when the store has rejected the rename (error result or throw), the
\* index and the selected conversation are unchanged, alert() is called
\* exactly once, the draft is cleared, no session is being edited, and no
\* update is sent again.
C6_RejectedRenameLeavesState ==
  [][ (RenameAnswered' /\ ~last'.ok) =>
        /\ conversations' = conversations
        /\ selectedConversation' = selectedConversation
        /\ store' = store
        /\ last'.alerts = 1
        /\ newSessionName' = EmptyString
        /\ editingSession' = Null
        /\ ~last'.updated
        /\ submits' = submits
        /\ InFlight(renameUpdates') = InFlight(renameUpdates) - 1 ]_vars

\* A rejected rename of a session that is selected and shown in the index.
C6_Witness ==
  /\ RenameAnswered
  /\ ~last.ok
  /\ last.alerts = 1
  /\ last.data[1].outcome = "error"
  /\ selectedConversation.session_id = last.sid
  /\ EntriesOf(conversations, last.sid) # {}

WhitespaceOnly(draft) == \A i \in 1..Len(draft) : draft[i] = " "

\* C7: submitting a draft that is empty or only whitespace sends no update,
\* leaves the store, the index and the selected conversation unchanged, and
\* ends the edit (no session being edited).
C7_BlankSubmitIsCancel ==
  [][ (last'.op = "handleRenameSubmit" /\ WhitespaceOnly(newSessionName)) =>
        /\ ~last'.updated
        /\ store' = store
        /\ renameUpdates' = renameUpdates
        /\ conversations' = conversations
        /\ selectedConversation' = selectedConversation
        /\ editingSession' = Null ]_vars

\* A draft of one space has just been submitted.
C7_Witness ==
  /\ last.op = "handleRenameSubmit"
  /\ newSessionName = <<" ">>
  /\ editingSession = Null
  /\ ~last.updated

\* C8: when an answer to loadMessages decodes to the sequence displayed, the
\* displayed sequence is kept and the scroll effect does not run; when it
\* decodes to another sequence, that one is displayed and the scroll effect
\* runs.
C8_ReplacedIffChanged ==
  [][ (ThreadAnswered' /\ ~AnyParseThrows(last'.data)) =>
        IF ParseRows(last'.data) = messages
          THEN messages' = messages /\ ~last'.replaced
          ELSE messages' = ParseRows(last'.data) /\ last'.replaced ]_vars

\* A non-empty thread has just been fetched again, unchanged.
C8_Witness ==
  /\ ThreadAnswered
  /\ ~last.replaced
  /\ messages # <<>>
  /\ messages = ParseRows(last.data)

\* A payload that decodes to a message: a structured value, or JSON text of one.
Decodable(message) ==
  IF message.isString
    THEN ~JSONParse(message.text).threw /\ ~JSONParse(message.text).value.nullish
    ELSE ~message.value.nullish

\* C9: after an answer to loadMessages, the displayed thread has one message
\* per row answered; a row whose payload is not decodable gives a message of
\* type unknown with the placeholder content, every other row its decoded type
\* and content.
C9_UndecodableRowIsolated ==
  ThreadAnswered =>
    /\ Len(messages) = Len(last.data)
    /\ \A i \in 1..Len(last.data) :
         /\ messages[i].id = last.data[i].id
         /\ IF Decodable(last.data[i].message)
              THEN /\ messages[i].type = ParsePayload(last.data[i].message).type
                   /\ messages[i].content = ParsePayload(last.data[i].message).content
              ELSE /\ messages[i].type = "unknown"
                   /\ messages[i].content = "Message non parsable"

\* C10: after loadConversations has applied an answer, the index is in
\* descending order of created_at.
C10_MostRecentFirst ==
  ListApplied =>
    \A i, j \in 1..Len(conversations) :
      i < j => conversations[i].created_at >= conversations[j].created_at

\* An answer whose sessions interleave in time, two of its rows at one time.
C10_Witness ==
  /\ ListApplied
  /\ Len(last.data) = 3
  /\ last.data[1].session_id = last.data[3].session_id
  /\ last.data[1].session_id # last.data[2].session_id
  /\ last.data[2].created_at = last.data[3].created_at
  /\ Len(conversations) = 2

ListFailed == last.op = "loadConversations" /\ ~last.ok

ThreadFailed == last.op = "loadMessages" /\ ~last.ok

\* C11: a failed list fetch leaves the index as it was and changes nothing
\* but the loading flag; a failed thread fetch leaves the displayed thread as
\* it was and changes nothing at all; after either, the timer is still set and
\* its next tick issues a new fetch.
C11_FailedFetchKeepsState ==
  /\ [][ /\ ListFailed' =>
              /\ conversations' = conversations
              /\ loading' = FALSE
              /\ UNCHANGED <<store, selectedConversation, messages, editingSession,
                             newSessionName, threadTimers, threadFetches,
                             renameUpdates>>
         /\ ThreadFailed' =>
              /\ messages' = messages
              /\ UNCHANGED <<store, conversations, selectedConversation, loading,
                             editingSession, newSessionName, threadTimers,
                             listFetches, renameUpdates>> ]_vars
  /\ [](ListFailed => ENABLED ListTick)
  /\ [](ThreadFailed => (threadTimers # <<>> /\ ENABLED ThreadTick))

\* A list fetch has just failed over an index that was already loaded, with a
\* thread on display.
C11_Witness ==
  /\ ListFailed
  /\ conversations # <<>>
  /\ messages # <<>>
  /\ ~loading

FirstChars(text, n) == SubSeq(text, 1, IF Len(text) < n THEN Len(text) ELSE n)

ContainsText(text, part) ==
  \E k \in 0..(Len(text) - Len(part)) : SubSeq(text, k + 1, k + Len(part)) = part

\* C12: after loadConversations has applied an answer, the Conversation of a
\* session none of whose rows carries a stored display_name has a display name
\* that contains the first 8 characters of its session_id (the whole id when
\* it is shorter).
C12_SynthesizedNameHasIdPrefix ==
  ListApplied =>
    \A i \in 1..Len(conversations) :
      StoredNames(last.data, conversations[i].session_id) = {}
        => /\ conversations[i].display_name # Null
           /\ ContainsText(conversations[i].display_name,
                           FirstChars(conversations[i].session_id, 8))

\* Both sessions unnamed, the long one with several rows, next to the short one.
C12_Witness ==
  /\ ListApplied
  /\ SessionsIn(last.data) = Sessions
  /\ Cardinality(RowsOf(last.data, SessionA)) >= 2
  /\ \A sessionId \in Sessions : StoredNames(last.data, sessionId) = {}
  /\ \E i \in 1..Len(conversations) :
       /\ conversations[i].session_id = SessionA
       /\ Len(conversations[i].session_id) > 8
       /\ conversations[i].display_name = SynthesizedName(SessionA)

MessageTypes == {"human", "ai", "unknown"}

\* C13: every message of the displayed thread has type human, ai or unknown,
\* whatever the payloads of the rows are.
C13_TypeIsHumanAiOrUnknown ==
  \A i \in 1..Len(messages) : messages[i].type \in MessageTypes

\* C14: when the store has confirmed the rename of session S, a selected
\* conversation of another session keeps its display name, whenever it was
\* selected.
C14_RenameLeavesOtherSelection ==
  [][ (/\ RenameAnswered'
       /\ last'.ok
       /\ selectedConversation # NoConversation
       /\ selectedConversation.session_id # last'.sid) =>
        selectedConversation' = selectedConversation ]_vars

RenameOps ==
  {"handleRenameStart", "onChange", "handleRenameSubmit",
   "handleRenameSubmitResume", "handleRenameCancel"}

\* C15: no step of the rename flow other than the one that receives a success
\* result of the store update changes the index or the selected conversation;
\* in particular the step that sends the update changes neither.
C15_NoOptimisticRename ==
  [][ (last'.op \in RenameOps /\ ~(RenameAnswered' /\ last'.ok)) =>
        /\ conversations' = conversations
        /\ selectedConversation' = selectedConversation ]_vars

\* The update of the selected session has been sent, the store has done it,
\* and the index and the selected conversation still show the former name.
C15_Witness ==
  /\ last.op = "handleRenameSubmit"
  /\ last.updated
  /\ last.ok
  /\ InFlight(renameUpdates) = 1
  /\ selectedConversation.session_id = last.sid
  /\ selectedConversation.display_name # Trim(newSessionName)
  /\ \A i \in EntriesOf(conversations, last.sid) :
       conversations[i].display_name # Trim(newSessionName)
  /\ \A r \in store : r.session_id = last.sid => r.display_name = Trim(newSessionName)

RenameConfirmed == last.op = "handleRenameSubmit" /\ last.updated /\ last.ok

\* C16: when the store confirms the rename of the session being edited, every
\* stored row of that session has the trimmed draft as display_name, every row
\* of every other session is as it was, and no row is added, removed or
\* changed in any other field.
C16_RenameWritesRowsOfSessionOnly ==
  [][ RenameConfirmed' =>
        /\ Cardinality(store') = Cardinality(store)
        /\ \A r \in store :
             \E w \in store' :
               /\ w.id = r.id
               /\ w = [r EXCEPT !.display_name = w.display_name]
               /\ w.display_name =
                    IF r.session_id = editingSession THEN Trim(newSessionName)
                                                     ELSE r.display_name ]_vars

\* The session with two rows has just been renamed in the store, the row of
\* the other session still unnamed.
C16_Witness ==
  /\ RenameConfirmed
  /\ last.sid = SessionA
  /\ Cardinality({ r \in store : r.session_id = SessionA }) = 2
  /\ \A r \in store :
       r.display_name = IF r.session_id = SessionA THEN NameA ELSE Null
  /\ \E r \in store : r.session_id = SessionB

\* C17: the completion of a rename submitted for session S leaves alone an
\* edit of another session started while the update was in flight: the session
\* being edited and its draft are as before the completion.
C17_CompletionKeepsNewerEdit ==
  [][ (/\ RenameAnswered'
       /\ editingSession # Null
       /\ editingSession # last'.sid) =>
        /\ editingSession' = editingSession
        /\ newSessionName' = newSessionName ]_vars

\* The names a rename can store: a trimmed draft that is not blank.
RenameTargets ==
  { Trim(d) : d \in DraftTexts \cup { SynthesizedName(x) : x \in Sessions } }
    \ {EmptyString}

StoreShows(sessionId, name) ==
  /\ \E r \in store : r.session_id = sessionId
  /\ \A r \in store : r.session_id = sessionId => r.display_name = name

IndexShows(sessionId, name) ==
  /\ EntriesOf(conversations, sessionId) # {}
  /\ \A i \in EntriesOf(conversations, sessionId) :
       conversations[i].display_name = name

\* C18: once the rows of session S carry the confirmed name N and no later
\* write changes them, the index entry of S eventually shows N and shows it
\* from then on, whatever fetches issued before the rename are applied late.
C18_ConfirmedNameEventuallyStays ==
  \A sessionId \in Sessions, name \in RenameTargets :
    <>[]StoreShows(sessionId, name) => <>[]IndexShows(sessionId, name)

\* A list answer issued before the rename has been applied after the rename's
\* own update of the index: the index shows the former name again.
C18_Witness ==
  /\ ListApplied
  /\ submits = 1
  /\ InFlight(renameUpdates) = 0
  /\ \E sessionId \in Sessions :
       /\ StoreShows(sessionId, NameA)
       /\ IndexShows(sessionId, SynthesizedName(sessionId))

\* The message a row stands for: its decoded payload, the placeholder when the
\* payload is not decodable.
DecodedMessage(row) ==
  LET m == IF Decodable(row.message) THEN ParsePayload(row.message)
                                     ELSE PlaceholderMessage
  IN  [id |-> row.id, type |-> m.type, content |-> m.content,
       timestamp |-> row.created_at]

ShowsThreadOf(sessionId) ==
  LET rows == { r \in store : r.session_id = sessionId }
  IN  /\ Len(messages) = Cardinality(rows)
      /\ Range(messages) = { DecodedMessage(r) : r \in rows }
      /\ \A i, j \in 1..Len(messages) :
           i < j => messages[i].timestamp <= messages[j].timestamp

\* C19: if session S stays selected (and its rows no longer change), the
\* displayed thread eventually is, and from then on stays, the decoded rows of
\* S in ascending created_at order, whatever answers for earlier selections
\* arrive late.
C19_SelectedThreadEventuallyShown ==
  \A sessionId \in Sessions :
    <>[](selectedConversation.session_id = sessionId)
      => <>[]ShowsThreadOf(sessionId)

\* C20: while a session is being edited, pressing the cancel key, like the
\* edit input losing focus, ends the edit with the draft cleared, sends no
\* update, and leaves the store, the index and the selected conversation as
\* they were.
C20_CancelReturnsToIdle ==
  [][ (last'.op \in {"handleRenameCancel", "pressEscape"}) =>
        /\ editingSession' = Null
        /\ newSessionName' = EmptyString
        /\ ~last'.updated
        /\ UNCHANGED <<store, renameUpdates, conversations,
                       selectedConversation>> ]_vars

====
